---- MODULE Spec2Model ----
(***************************************************************************)
(* Model of app.py: the carbon-accounting form handler index() and the     *)
(* scenario generator calculate_scenarios().                               *)
(*                                                                         *)
(* Numbers.  The program computes with Python floats.  Here every number   *)
(* is an exact rational [n |-> numerator, d |-> denominator] in lowest     *)
(* terms with d > 0, and the arithmetic is exact; round(x, k) is modelled  *)
(* by PyRound, round-half-to-even on the exact value.  Binary rounding     *)
(* error of the floats, NaN and infinities are outside the model.  The     *)
(* formatted strings (description, the percentage inside a name) are not   *)
(* modelled.                                                               *)
(***************************************************************************)
EXTENDS Integers, Sequences, FiniteSets, TLC

VARIABLES method, form, data, locals, result, outcome

vars == <<method, form, data, locals, result, outcome>>

----------------------------------------------------------------------------
(* Exact rational arithmetic standing for float arithmetic.                *)

RECURSIVE GCD(_, _)
GCD(a, b) == IF b = 0 THEN a ELSE GCD(b, a % b)

Abs(x) == IF x < 0 THEN -x ELSE x

Norm(n, d) ==
    LET s == IF d < 0 THEN -1 ELSE 1
        g == GCD(Abs(n), Abs(d))
    IN  [n |-> s * (n \div g), d |-> s * (d \div g)]

Num(i) == [n |-> i, d |-> 1]

Zero == Num(0)

RNeg(a) == [n |-> -a.n, d |-> a.d]

RMul(a, b) ==
    LET g1 == GCD(Abs(a.n), b.d)
        g2 == GCD(Abs(b.n), a.d)
    IN  [n |-> (a.n \div g1) * (b.n \div g2), d |-> (a.d \div g2) * (b.d \div g1)]

RInv(a) == IF a.n < 0 THEN [n |-> -a.d, d |-> -a.n] ELSE [n |-> a.d, d |-> a.n]

RDiv(a, b) == RMul(a, RInv(b))

RAdd(a, b) ==
    LET g == GCD(a.d, b.d)
        l == (a.d \div g) * b.d
    IN  Norm(a.n * (l \div a.d) + b.n * (l \div b.d), l)

RSub(a, b) == RAdd(a, RNeg(b))

RGt(a, b) == a.n * b.d > b.n * a.d

RLt(a, b) == RGt(b, a)

RGe(a, b) == ~RGt(b, a)

RLe(a, b) == ~RGt(a, b)

RMin(a, b) == IF RLt(b, a) THEN b ELSE a

RECURSIVE RSumSeq(_)
RSumSeq(s) == IF s = <<>> THEN Zero ELSE RAdd(Head(s), RSumSeq(Tail(s)))

RECURSIVE Pow10(_)
Pow10(k) == IF k = 0 THEN 1 ELSE 10 * Pow10(k - 1)

(* value q + r/den multiplied by m, kept as quotient and remainder *)
MulStep(qr, den, m) ==
    <<qr[1] * m + ((qr[2] * m) \div den), (qr[2] * m) % den>>

RECURSIVE ShiftDigits(_, _, _)
ShiftDigits(qr, den, k) ==
    IF k = 0 THEN qr
    ELSE ShiftDigits(MulStep(MulStep(qr, den, 2), den, 5), den, k - 1)

(* round(x, k): the multiple of 10^-k nearest to x, ties to even *)
PyRound(x, k) ==
    LET a  == Abs(x.n)
        qr == ShiftDigits(<<a \div x.d, a % x.d>>, x.d, k)
        up == \/ 2 * qr[2] > x.d
              \/ (2 * qr[2] = x.d /\ qr[1] % 2 = 1)
        m  == IF up THEN qr[1] + 1 ELSE qr[1]
    IN  Norm(IF x.n < 0 THEN -m ELSE m, Pow10(k))

(* int(x): truncation toward zero *)
PyInt(x) == IF x.n < 0 THEN -((-x.n) \div x.d) ELSE x.n \div x.d

----------------------------------------------------------------------------
(* Module constants.                                                       *)

FACTORS ==
    [diesel |-> Norm(268, 100000), petrol |-> Norm(231, 100000),
     natural_gas |-> Norm(202, 100000), coal |-> Norm(286, 100),
     lpg |-> Norm(151, 100000), electricity |-> Norm(71, 100000),
     refrigerant_r22 |-> Norm(1810, 1000), refrigerant_r410a |-> Norm(2088, 1000),
     refrigerant_r134a |-> Norm(1430, 1000),
     steel |-> Norm(185, 100), cement |-> Norm(90, 100), aluminum |-> Norm(127, 10),
     plastic |-> Norm(270, 100), paper |-> Norm(94, 100), glass |-> Norm(85, 100),
     logistics_truck |-> Norm(12, 100000), logistics_ship |-> Norm(4, 100000),
     logistics_air |-> Norm(60, 100000),
     waste_landfill |-> Norm(50, 100), waste_recycled |-> Norm(10, 100)]

ENERGY_COSTS ==
    [electricity |-> Norm(85, 10), diesel |-> Num(95), petrol |-> Num(105),
     natural_gas |-> Num(45), coal |-> Num(8000), lpg |-> Num(85)]

CARBON_PRICE == 2500

----------------------------------------------------------------------------
(* Form values: a field of request.form is absent (None), the empty        *)
(* string, a string float() rejects, or a string float() parses to v.      *)

None == [k |-> "None"]

Empty == [k |-> "empty"]

Bad == [k |-> "bad"]

Str(v) == [k |-> "num", v |-> v]

safe_float(value, default) ==
    IF value = None \/ value = Empty THEN default
    ELSE IF value.k = "num" THEN value.v
    ELSE default

----------------------------------------------------------------------------
(* A Python dict is the sequence of its items <<key, value>> in insertion  *)
(* order.                                                                  *)

RECURSIVE DictGet(_, _)
DictGet(dict, key) ==
    IF Head(dict)[1] = key THEN Head(dict)[2] ELSE DictGet(Tail(dict), key)

DictValues(dict) == [i \in 1..Len(dict) |-> dict[i][2]]

DictKeys(dict) == {dict[i][1] : i \in 1..Len(dict)}

(* The value of a one-element set.  Only({body : x \in {e}}) is body with x *)
(* bound to the value of e, computed once: a local variable assigned once. *)
Only(S) == CHOOSE x \in S : TRUE

(* s.get('is_combined', False) *)
GetIsCombined(s) == IF "is_combined" \in DOMAIN s THEN s.is_combined ELSE FALSE

(* Python's order on the sort keys: a key is a tuple of numbers, compared  *)
(* lexicographically                                                       *)
RECURSIVE KeyLess(_, _)
KeyLess(k1, k2) ==
    IF k1 = <<>> \/ k2 = <<>> THEN k1 = <<>> /\ k2 # <<>>
    ELSE IF RLt(Head(k1), Head(k2)) THEN TRUE
    ELSE IF RLt(Head(k2), Head(k1)) THEN FALSE
    ELSE KeyLess(Tail(k1), Tail(k2))

(* list.sort / sorted: stable; an item is <<key, element>> *)
RECURSIVE InsertStable(_, _)
InsertStable(x, sorted) ==
    IF sorted = <<>> THEN <<x>>
    ELSE IF KeyLess(x[1], Head(sorted)[1]) THEN <<x>> \o sorted
    ELSE <<Head(sorted)>> \o InsertStable(x, Tail(sorted))

RECURSIVE SortStable(_)
SortStable(items) ==
    IF items = <<>> THEN <<>>
    ELSE InsertStable(items[Len(items)], SortStable(SubSeq(items, 1, Len(items) - 1)))

(* sorted(xs, key=...) with keys[i] the key of xs[i] *)
SortedByKey(xs, keys) ==
    LET sorted == SortStable([i \in 1..Len(xs) |-> <<keys[i], xs[i]>>])
    IN  [i \in 1..Len(xs) |-> sorted[i][2]]

----------------------------------------------------------------------------
(* calculate_scenarios: the local variables of each scenario block, the    *)
(* dict each block appends, and the divisions each block evaluates.        *)

solar_locals(d) ==
    LET solar_offset_pct == 40
        solar_kwh == RMul(d.electricity, Norm(solar_offset_pct, 100))
        solar_emission_reduction == RMul(solar_kwh, FACTORS.electricity)
        solar_energy_savings == RMul(solar_kwh, ENERGY_COSTS.electricity)
        system_size_kw == RDiv(solar_kwh, Num(150))
        solar_investment == RMul(system_size_kw, Num(60000))
        solar_roi == IF RGt(solar_investment, Zero)
                     THEN RDiv(RMul(solar_energy_savings, Num(100)), solar_investment)
                     ELSE Zero
    IN  [reduction |-> solar_emission_reduction, savings |-> solar_energy_savings,
         investment |-> solar_investment, roi |-> solar_roi]

ev_locals(d) ==
    LET vehicle_fuel_cost == RAdd(RMul(d.diesel, ENERGY_COSTS.diesel),
                                  RMul(d.petrol, ENERGY_COSTS.petrol))
        ev_transition_pct == 30
        ev_fuel_savings == RMul(RDiv(RMul(vehicle_fuel_cost, Num(ev_transition_pct)), Num(100)),
                                Norm(6, 10))
        ev_emission_reduction ==
            RDiv(RMul(RAdd(RMul(d.diesel, FACTORS.diesel), RMul(d.petrol, FACTORS.petrol)),
                      Num(ev_transition_pct)), Num(100))
        quotient == PyInt(RDiv(RAdd(d.diesel, d.petrol), Num(1000)))
        vehicles_to_replace == IF quotient > 1 THEN quotient ELSE 1
        ev_investment == Num(vehicles_to_replace * 1500000)
        ev_roi == IF RGt(ev_investment, Zero)
                  THEN RDiv(RMul(ev_fuel_savings, Num(100)), ev_investment)
                  ELSE Zero
    IN  [reduction |-> ev_emission_reduction, savings |-> ev_fuel_savings,
         investment |-> ev_investment, roi |-> ev_roi]

efficiency_locals(d) ==
    LET efficiency_savings_pct == 15
        kwh_saved == RDiv(RMul(d.electricity, Num(efficiency_savings_pct)), Num(100))
        efficiency_emission_reduction == RMul(kwh_saved, FACTORS.electricity)
        efficiency_cost_savings == RMul(kwh_saved, ENERGY_COSTS.electricity)
        efficiency_investment == RMul(d.electricity, Norm(5, 10))
        efficiency_roi == IF RGt(efficiency_investment, Zero)
                          THEN RDiv(RMul(efficiency_cost_savings, Num(100)), efficiency_investment)
                          ELSE Zero
    IN  [reduction |-> efficiency_emission_reduction, savings |-> efficiency_cost_savings,
         investment |-> efficiency_investment, roi |-> efficiency_roi]

waste_locals(d) ==
    LET waste_reduction_pct == 50
        waste_diverted == RDiv(RMul(d.waste_landfill, Num(waste_reduction_pct)), Num(100))
        waste_emission_reduction ==
            RMul(waste_diverted, RSub(FACTORS.waste_landfill, FACTORS.waste_recycled))
        waste_cost_savings == RMul(waste_diverted, Num(2000))
        waste_investment == RAdd(Num(300000), RMul(d.waste_landfill, Num(10000)))
        waste_roi == IF RGt(waste_investment, Zero)
                     THEN RDiv(RMul(waste_cost_savings, Num(100)), waste_investment)
                     ELSE Zero
    IN  [reduction |-> waste_emission_reduction, savings |-> waste_cost_savings,
         investment |-> waste_investment, roi |-> waste_roi]

(* renewable_locals with the premium taken for one month, not twelve *)
renewable_locals_monthly_premium(d) ==
    LET target_renewable == RMin(Num(50), RAdd(d.renewable, Num(30)))
        additional_renewable_pct == RSub(target_renewable, d.renewable)
        additional_renewable_kwh ==
            RDiv(RMul(d.electricity, additional_renewable_pct), Num(100))
        renewable_emission_reduction == RMul(additional_renewable_kwh, FACTORS.electricity)
        green_premium == RMul(additional_renewable_kwh, Norm(15, 10))
        renewable_carbon_savings == RMul(renewable_emission_reduction, Num(CARBON_PRICE))
        net_renewable_savings == RSub(renewable_carbon_savings, green_premium)
    IN  [reduction |-> renewable_emission_reduction, savings |-> net_renewable_savings,
         investment |-> Zero, roi |-> Zero]

renewable_locals(d) ==
    LET target_renewable == RMin(Num(50), RAdd(d.renewable, Num(30)))
        additional_renewable_pct == RSub(target_renewable, d.renewable)
        additional_renewable_kwh ==
            RDiv(RMul(d.electricity, additional_renewable_pct), Num(100))
        renewable_emission_reduction == RMul(additional_renewable_kwh, FACTORS.electricity)
        green_premium == RMul(RMul(additional_renewable_kwh, Num(12)), Norm(15, 10))
        renewable_carbon_savings == RMul(renewable_emission_reduction, Num(CARBON_PRICE))
        net_renewable_savings == RSub(renewable_carbon_savings, green_premium)
    IN  [reduction |-> renewable_emission_reduction, savings |-> net_renewable_savings,
         investment |-> Zero, roi |-> Zero]

material_locals(scope3) ==
    LET material_efficiency_pct == 10
        material_emission_reduction ==
            RDiv(RMul(DictGet(scope3, "Raw Materials"), Num(material_efficiency_pct)), Num(100))
        material_cost_savings == RMul(material_emission_reduction, Num(50000))
        material_investment == Num(500000)
        material_roi == IF RGt(material_investment, Zero)
                        THEN RDiv(RMul(material_cost_savings, Num(100)), material_investment)
                        ELSE Zero
    IN  [reduction |-> material_emission_reduction, savings |-> material_cost_savings,
         investment |-> material_investment, roi |-> material_roi]

(* scenario_dict with the payback guard testing the investment, not the savings *)
scenario_dict_guard_on_investment(name, l, priority) ==
    [name |-> name,
     investment |-> PyRound(l.investment, 2),
     annual_savings |-> PyRound(l.savings, 2),
     carbon_reduction |-> PyRound(l.reduction, 2),
     payback_years |-> IF RGt(l.investment, Zero)
                       THEN PyRound(RDiv(l.investment, l.savings), 1) ELSE Zero,
     roi_percent |-> PyRound(l.roi, 1),
     priority |-> priority]

(* the dict literal shared by the solar, EV, efficiency, waste and material blocks *)
scenario_dict(name, l, priority) ==
    [name |-> name,
     investment |-> PyRound(l.investment, 2),
     annual_savings |-> PyRound(l.savings, 2),
     carbon_reduction |-> PyRound(l.reduction, 2),
     payback_years |-> IF RGt(l.savings, Zero)
                       THEN PyRound(RDiv(l.investment, l.savings), 1) ELSE Zero,
     roi_percent |-> PyRound(l.roi, 1),
     priority |-> priority]

renewable_dict(l) ==
    [name |-> "Green Energy Procurement",
     investment |-> Zero,
     annual_savings |-> PyRound(l.savings, 2),
     carbon_reduction |-> PyRound(l.reduction, 2),
     payback_years |-> Zero,
     roi_percent |-> IF RGt(l.savings, Zero) THEN Num(999) ELSE Zero,
     priority |-> IF RGt(l.savings, Zero) THEN "High" ELSE "Low"]

(* applicability predicates of the six blocks *)
solar_applies(d) == RGt(d.electricity, Zero)

ev_applies(d) == RGt(d.diesel, Num(1000)) \/ RGt(d.petrol, Num(500))

efficiency_applies(d) == RGt(d.electricity, Zero)

waste_applies(d) == RGt(d.waste_landfill, Zero)

renewable_applies(d) == RLt(d.renewable, Num(50))

material_applies(scope3) == RGt(DictGet(scope3, "Raw Materials"), Num(10))

(* the scenarios list before the combined record is appended *)
individual_scenarios(d, scope3) ==
    (IF solar_applies(d)
     THEN <<scenario_dict("Rooftop Solar (40% offset)", solar_locals(d),
                          IF RGt(solar_locals(d).roi, Num(15)) THEN "High" ELSE "Medium")>>
     ELSE <<>>)
    \o (IF ev_applies(d)
        THEN <<scenario_dict("EV Fleet (30% transition)", ev_locals(d),
                             IF RGt(ev_locals(d).roi, Num(12)) THEN "High" ELSE "Medium")>>
        ELSE <<>>)
    \o (IF efficiency_applies(d)
        THEN <<scenario_dict("Energy Efficiency (15% reduction)", efficiency_locals(d),
                             IF RGt(efficiency_locals(d).roi, Num(20)) THEN "High" ELSE "Medium")>>
        ELSE <<>>)
    \o (IF waste_applies(d)
        THEN <<scenario_dict("Waste Diversion (50% to recycling)", waste_locals(d), "Medium")>>
        ELSE <<>>)
    \o (IF renewable_applies(d) THEN <<renewable_dict(renewable_locals(d))>> ELSE <<>>)
    \o (IF material_applies(scope3)
        THEN <<scenario_dict("Material Efficiency (10% reduction)", material_locals(scope3),
                             "Medium")>>
        ELSE <<>>)

(* sum(s[field] for s in scenarios), optionally only the positive terms *)
RECURSIVE SumField(_, _, _)
SumField(scenarios, field, onlyPositive) ==
    IF scenarios = <<>> THEN Zero
    ELSE LET v == Head(scenarios)[field]
         IN  RAdd(IF onlyPositive /\ ~RGt(v, Zero) THEN Zero ELSE v,
                  SumField(Tail(scenarios), field, onlyPositive))

(* combined_locals with the positive-only filter of the investment sum on the reduction sum too *)
combined_locals_positive_reductions(scenarios) ==
    [investment |-> SumField(scenarios, "investment", TRUE),
     savings |-> SumField(scenarios, "annual_savings", FALSE),
     reduction |-> SumField(scenarios, "carbon_reduction", TRUE)]

combined_locals(scenarios) ==
    [investment |-> SumField(scenarios, "investment", TRUE),
     savings |-> SumField(scenarios, "annual_savings", FALSE),
     reduction |-> SumField(scenarios, "carbon_reduction", FALSE)]

combined_dict(l) ==
    [name |-> "Combined Optimization (All Measures)",
     investment |-> PyRound(l.investment, 2),
     annual_savings |-> PyRound(l.savings, 2),
     carbon_reduction |-> PyRound(l.reduction, 2),
     payback_years |-> IF RGt(l.savings, Zero)
                       THEN PyRound(RDiv(l.investment, l.savings), 1) ELSE Zero,
     roi_percent |-> IF RGt(l.investment, Zero)
                     THEN PyRound(RDiv(RMul(l.savings, Num(100)), l.investment), 1) ELSE Zero,
     priority |-> "Recommended",
     is_combined |-> TRUE]

(* scenario_key without the minus sign: lowest ROI first *)
scenario_key_ascending(x) == <<Num(IF GetIsCombined(x) THEN 1 ELSE 0), x.roi_percent>>

(* key=lambda x: (x.get('is_combined', False), -x['roi_percent']) *)
scenario_key(x) == <<Num(IF GetIsCombined(x) THEN 1 ELSE 0), RNeg(x.roi_percent)>>

with_combined(individual) ==
    Only({Append(individual, combined_dict(l)) : l \in {combined_locals(individual)}})

sort_scenarios(scenarios) ==
    SortedByKey(scenarios, [i \in 1..Len(scenarios) |-> scenario_key(scenarios[i])])

calculate_scenarios(d, scope3) ==
    Only({sort_scenarios(scenarios) :
            scenarios \in {with_combined(individual) :
                              individual \in {individual_scenarios(d, scope3)}}})

(* The unrounded savings and investment of every scenario that is emitted, *)
(* by name: the operands of its payback and ROI expressions.               *)
scenario_operands(d, scope3) ==
    (IF solar_applies(d) THEN <<<<"Rooftop Solar (40% offset)", solar_locals(d)>>>> ELSE <<>>)
    \o (IF ev_applies(d) THEN <<<<"EV Fleet (30% transition)", ev_locals(d)>>>> ELSE <<>>)
    \o (IF efficiency_applies(d)
        THEN <<<<"Energy Efficiency (15% reduction)", efficiency_locals(d)>>>> ELSE <<>>)
    \o (IF waste_applies(d)
        THEN <<<<"Waste Diversion (50% to recycling)", waste_locals(d)>>>> ELSE <<>>)
    \o (IF renewable_applies(d)
        THEN <<<<"Green Energy Procurement", renewable_locals(d)>>>> ELSE <<>>)
    \o (IF material_applies(scope3)
        THEN <<<<"Material Efficiency (10% reduction)", material_locals(scope3)>>>> ELSE <<>>)
    \o Only({<<<<"Combined Optimization (All Measures)", combined_locals(individual)>>>> :
                individual \in {individual_scenarios(d, scope3)}})

(* The divisions by a computed value that calculate_scenarios evaluates,   *)
(* given the operands of the emitted scenarios:                            *)
(* the ROI and payback quotients of every block but the green one, each    *)
(* under the condition its expression tests.  (The other divisions are by  *)
(* the literals 100, 150 and 1000.)                                        *)
divisions_of(ops) ==
    {[scenario |-> ops[i][1], field |-> "roi_percent", den |-> ops[i][2].investment] :
        i \in {j \in 1..Len(ops) : /\ ops[j][1] # "Green Energy Procurement"
                                  /\ RGt(ops[j][2].investment, Zero)}}
    \cup
    {[scenario |-> ops[i][1], field |-> "payback_years", den |-> ops[i][2].savings] :
        i \in {j \in 1..Len(ops) : /\ ops[j][1] # "Green Energy Procurement"
                                  /\ RGt(ops[j][2].savings, Zero)}}

----------------------------------------------------------------------------
(* index(): the POST branch.                                               *)

(* the data dict built from request.form *)
coerce(f) ==
    [diesel |-> safe_float(f.diesel, Zero),
     petrol |-> safe_float(f.petrol, Zero),
     natural_gas |-> safe_float(f.natural_gas, Zero),
     coal |-> safe_float(f.coal, Zero),
     lpg |-> safe_float(f.lpg, Zero),
     electricity |-> safe_float(f.electricity, Zero),
     renewable |-> safe_float(f.renewable, Zero),
     refrigerant_r22 |-> safe_float(f.refrigerant_r22, Zero),
     refrigerant_r410a |-> safe_float(f.refrigerant_r410a, Zero),
     refrigerant_r134a |-> safe_float(f.refrigerant_r134a, Zero),
     steel |-> safe_float(f.steel, Zero),
     cement |-> safe_float(f.cement, Zero),
     aluminum |-> safe_float(f.aluminum, Zero),
     plastic |-> safe_float(f.plastic, Zero),
     paper |-> safe_float(f.paper, Zero),
     glass |-> safe_float(f.glass, Zero),
     logistics_truck |-> safe_float(f.logistics_truck, Zero),
     logistics_ship |-> safe_float(f.logistics_ship, Zero),
     logistics_air |-> safe_float(f.logistics_air, Zero),
     waste_landfill |-> safe_float(f.waste_landfill, Zero),
     waste_recycled |-> safe_float(f.waste_recycled, Zero),
     production |-> safe_float(f.production, Num(1))]

Emission(d, field) == RMul(d[field], FACTORS[field])

scope1_dict(d) ==
    <<<<"Diesel", Emission(d, "diesel")>>,
      <<"Petrol", Emission(d, "petrol")>>,
      <<"Natural Gas", Emission(d, "natural_gas")>>,
      <<"Coal", Emission(d, "coal")>>,
      <<"LPG", Emission(d, "lpg")>>,
      <<"Refrigerants", RAdd(RAdd(Emission(d, "refrigerant_r22"),
                                  Emission(d, "refrigerant_r410a")),
                             Emission(d, "refrigerant_r134a"))>>>>

scope2_dict(d) ==
    LET grid_electricity ==
            RMul(d.electricity, RSub(Num(1), RDiv(d.renewable, Num(100))))
    IN  <<<<"Grid Electricity", RMul(grid_electricity, FACTORS.electricity)>>,
          <<"Renewable", Zero>>>>

scope3_dict(d) ==
    <<<<"Raw Materials",
        RAdd(RAdd(RAdd(RAdd(RAdd(Emission(d, "steel"), Emission(d, "cement")),
                            Emission(d, "aluminum")), Emission(d, "plastic")),
                  Emission(d, "paper")), Emission(d, "glass"))>>,
      <<"Logistics", RAdd(RAdd(Emission(d, "logistics_truck"), Emission(d, "logistics_ship")),
                          Emission(d, "logistics_air"))>>,
      <<"Waste", RAdd(Emission(d, "waste_landfill"), Emission(d, "waste_recycled"))>>>>

(* {k: round(v, 2) for k, v in scope.items() if v > 0} *)
RECURSIVE positive_rounded(_)
positive_rounded(scope) ==
    IF scope = <<>> THEN <<>>
    ELSE (IF RGt(Head(scope)[2], Zero)
          THEN <<<<Head(scope)[1], PyRound(Head(scope)[2], 2)>>>> ELSE <<>>)
         \o positive_rounded(Tail(scope))

by_source_dict(scope1, scope2, scope3) ==
    positive_rounded(scope1) \o positive_rounded(scope2) \o positive_rounded(scope3)

carbon_costs(by_source) ==
    [i \in 1..Len(by_source) |->
        <<by_source[i][1], PyRound(RMul(by_source[i][2], Num(CARBON_PRICE)), 2)>>]

(* hotspots_list without reverse=True: smallest emission first *)
hotspots_list_ascending(by_source, total) ==
    LET items == [i \in 1..Len(by_source) |->
                    [source |-> by_source[i][1],
                     emission |-> by_source[i][2],
                     percent |-> RMul(RDiv(by_source[i][2], total), Num(100))]]
        sorted == SortedByKey(items, [i \in 1..Len(items) |-> <<items[i].emission>>])
    IN  SubSeq(sorted, 1, IF Len(sorted) < 5 THEN Len(sorted) ELSE 5)

(* sorted([...], key=lambda x: x['emission'], reverse=True)[:5]; total # 0 *)
hotspots_list(by_source, total) ==
    LET items == [i \in 1..Len(by_source) |->
                    [source |-> by_source[i][1],
                     emission |-> by_source[i][2],
                     percent |-> RMul(RDiv(by_source[i][2], total), Num(100))]]
        sorted == SortedByKey(items, [i \in 1..Len(items) |-> <<RNeg(items[i].emission)>>])
    IN  SubSeq(sorted, 1, IF Len(sorted) < 5 THEN Len(sorted) ELSE 5)

(* [s for s in scenarios if s.get('is_combined')][0] *)
combined_of(scenarios) ==
    scenarios[CHOOSE i \in 1..Len(scenarios) :
                /\ GetIsCombined(scenarios[i])
                /\ \A j \in 1..(i - 1) : ~GetIsCombined(scenarios[j])]

(* the local variables of index() up to the hotspots expression, and the   *)
(* divisions by a computed value evaluated so far: those of                *)
(* calculate_scenarios, total / production and v / total                   *)
locals_of(d, scope1, scope2, scope3, operands) ==
    LET scope1_total == RSumSeq(DictValues(scope1))
        scope2_total == DictGet(scope2, "Grid Electricity")
        scope3_total == RSumSeq(DictValues(scope3))
        total == RAdd(RAdd(scope1_total, scope2_total), scope3_total)
        by_source == by_source_dict(scope1, scope2, scope3)
    IN  [scope1 |-> scope1, scope2 |-> scope2, scope3 |-> scope3,
         scope1_total |-> scope1_total, scope2_total |-> scope2_total,
         scope3_total |-> scope3_total, total |-> total,
         by_source |-> by_source,
         scenarios |-> calculate_scenarios(d, scope3),
         operands |-> operands,
         intensity |-> IF RGt(d.production, Zero) THEN RDiv(total, d.production) ELSE Zero,
         divisions |-> divisions_of(operands)
                       \cup (IF RGt(d.production, Zero)
                             THEN {[scenario |-> "index", field |-> "intensity",
                                    den |-> d.production]}
                             ELSE {})
                       \cup (IF by_source # <<>>
                             THEN {[scenario |-> "index", field |-> "percent", den |-> total]}
                             ELSE {})]

index_locals(d) ==
    Only({Only({locals_of(d, sc[1], sc[2], sc[3], operands) :
                  operands \in {scenario_operands(d, sc[3])}}) :
            sc \in {<<scope1_dict(d), scope2_dict(d), scope3_dict(d)>>}})

(* v/total raises ZeroDivisionError for the first by_source item when total is 0 *)
raises_zero_division(l) == l.by_source # <<>> /\ l.total = Zero

index_result(d, l) ==
    LET combined_scenario == combined_of(l.scenarios)
        ten_year_savings == RMul(combined_scenario.annual_savings, Num(10))
        ten_year_reduction == RMul(combined_scenario.carbon_reduction, Num(10))
        carbon_cost == RMul(l.total, Num(CARBON_PRICE))
    IN  [scope1 |-> PyRound(l.scope1_total, 2),
         scope2 |-> PyRound(l.scope2_total, 2),
         scope3 |-> PyRound(l.scope3_total, 2),
         total |-> PyRound(l.total, 2),
         intensity |-> PyRound(l.intensity, 4),
         renewable |-> d.renewable,
         production |-> d.production,
         by_scope |-> <<PyRound(l.scope1_total, 2), PyRound(l.scope2_total, 2),
                        PyRound(l.scope3_total, 2)>>,
         by_source |-> l.by_source,
         carbon_costs_by_source |-> carbon_costs(l.by_source),
         carbon_cost |-> PyRound(carbon_cost, 2),
         scenarios |-> l.scenarios,
         ten_year_savings |-> PyRound(ten_year_savings, 2),
         ten_year_reduction |-> PyRound(ten_year_reduction, 2),
         hotspots |-> hotspots_list(l.by_source, l.total)]

----------------------------------------------------------------------------
(* The submissions explored.                                               *)

MaxThousands == 1

MaxTonnes == 1

DieselValues == {None, Str(Num(1)), Str(Num(2)), Str(Num(71)), Str(Num(1500))}

PetrolValues == {Empty, Str(Num(1)), Str(Num(-2000))}

ElectricityValues ==
    {None, Str(Num(-1000)), Str(Num(268))} \cup {Str(Num(1000 * k)) : k \in 1..MaxThousands}

RenewableValues == {None, Str(Num(20)), Str(Num(50)), Str(Num(200))}

WasteValues == {Bad, Str(Num(1)), Str(Num(8))}

AluminumValues == {None} \cup {Str(Num(k)) : k \in 1..MaxTonnes}

ProductionValues == {None, Str(Num(0))}

OtherValues == {None, Str(Num(1))}

Form(diesel, petrol, electricity, renewable, waste, aluminum, production, other) ==
    [diesel |-> diesel, petrol |-> petrol, natural_gas |-> other, coal |-> other,
     lpg |-> other, electricity |-> electricity, renewable |-> renewable,
     refrigerant_r22 |-> other, refrigerant_r410a |-> other, refrigerant_r134a |-> other,
     steel |-> other, cement |-> other, aluminum |-> aluminum, plastic |-> other,
     paper |-> other, glass |-> other, logistics_truck |-> other,
     logistics_ship |-> other, logistics_air |-> other, waste_landfill |-> waste,
     waste_recycled |-> other, production |-> production]

EmptyForm == Form(None, None, None, None, None, None, None, None)

Forms ==
    {Form(di, pe, el, re, wa, al, pr, ot) :
        di \in DieselValues, pe \in PetrolValues, el \in ElectricityValues,
        re \in RenewableValues, wa \in WasteValues, al \in AluminumValues,
        pr \in ProductionValues, ot \in OtherValues}

----------------------------------------------------------------------------
(* The handler as a state machine.  Flask binds request.method and         *)
(* request.form, calls index(), sends what it returns (or the error page   *)
(* when it raises) and drops the request context; data, the locals and     *)
(* result live only during one call.                                       *)

Unbound == [k |-> "unbound"]

Init ==
    /\ method = "none"
    /\ form = EmptyForm
    /\ data = Unbound
    /\ locals = Unbound
    /\ result = None
    /\ outcome = "idle"

(* a request arrives: a GET, or a POST carrying a form *)
Request ==
    /\ outcome = "idle"
    /\ \/ method' = "GET" /\ form' = EmptyForm
       \/ method' = "POST" /\ form' \in Forms
    /\ outcome' = "pending"
    /\ UNCHANGED <<data, locals, result>>

(* GET: result stays None and the template is rendered *)
IndexGet ==
    /\ outcome = "pending"
    /\ method = "GET"
    /\ result' = None
    /\ outcome' = "rendered"
    /\ UNCHANGED <<method, form, data, locals>>

(* POST: the whole computation, or the exception that ends it *)
IndexPost ==
    /\ outcome = "pending"
    /\ method = "POST"
    /\ \E d \in {coerce(form)} :
         \E l \in {index_locals(d)} :
           /\ data' = d
           /\ locals' = l
           /\ IF raises_zero_division(l)
              THEN /\ result' = None
                   /\ outcome' = "ZeroDivisionError"
              ELSE /\ result' = index_result(d, l)
                   /\ outcome' = "rendered"
    /\ UNCHANGED <<method, form>>

(* the response is sent and the request context is popped *)
Teardown ==
    /\ outcome \in {"rendered", "ZeroDivisionError"}
    /\ method' = "none"
    /\ form' = EmptyForm
    /\ data' = Unbound
    /\ locals' = Unbound
    /\ result' = None
    /\ outcome' = "idle"

Next == Request \/ IndexGet \/ IndexPost \/ Teardown

Spec == Init /\ [][Next]_vars

----------------------------------------------------------------------------
(* Vocabulary of the properties.                                           *)

(* index() has run its POST branch, to the end or to the exception *)
Handled == method = "POST" /\ outcome \in {"rendered", "ZeroDivisionError"}

(* index() has run its POST branch to the end *)
Rendered == method = "POST" /\ outcome = "rendered"

GreenName == "Green Energy Procurement"

CombinedName == "Combined Optimization (All Measures)"

Emitted == locals.scenarios

NonCombined == {i \in 1..Len(Emitted) : ~GetIsCombined(Emitted[i])}

IsIndividual(s) == ~GetIsCombined(s)

IsEmitted(name) == \E i \in 1..Len(Emitted) : Emitted[i].name = name

ScenarioNamed(name) == Emitted[CHOOSE i \in 1..Len(Emitted) : Emitted[i].name = name]

OperandsOf(name) == DictGet(locals.operands, name)

Applies(name) ==
    CASE name = "Rooftop Solar (40% offset)" -> solar_applies(data)
      [] name = "EV Fleet (30% transition)" -> ev_applies(data)
      [] name = "Energy Efficiency (15% reduction)" -> efficiency_applies(data)
      [] name = "Waste Diversion (50% to recycling)" -> waste_applies(data)
      [] name = GreenName -> renewable_applies(data)
      [] name = "Material Efficiency (10% reduction)" -> material_applies(locals.scope3)
      [] OTHER -> FALSE

ScenarioDivisions == {dv \in locals.divisions : dv.scenario # "index"}

Hotspots == result.hotspots

PercentSum == RSumSeq([i \in 1..Len(Hotspots) |-> Hotspots[i].percent])

(* the by_source entries that did not make it into hotspots *)
LeftOut ==
    {i \in 1..Len(locals.by_source) :
        \A j \in 1..Len(Hotspots) : Hotspots[j].source # locals.by_source[i][1]}

----------------------------------------------------------------------------
(* C1: for every submission the three scope totals and the grand total     *)
(* computed by index() are >= 0.                                           *)
C1_ScopeTotalsNonNegative ==
    Handled =>
        /\ RGe(locals.scope1_total, Zero)
        /\ RGe(locals.scope2_total, Zero)
        /\ RGe(locals.scope3_total, Zero)
        /\ RGe(locals.total, Zero)

(* C2: the hotspot division is guarded: index() never fails with a         *)
(* division by zero, every hotspot percent is 0 when the grand total is 0, *)
(* and no division of index() has a denominator <= 0.                      *)
C2_DivisionsGuarded ==
    Handled =>
        /\ outcome # "ZeroDivisionError"
        /\ (locals.total = Zero /\ Rendered) =>
               \A i \in 1..Len(Hotspots) : Hotspots[i].percent = Zero
        /\ \A dv \in locals.divisions : dv.scenario = "index" => RGt(dv.den, Zero)

(* C3 as stated: every returned scenario, the green and the combined one   *)
(* included, has payback_years 0 when its annual savings is <= 0 and       *)
(* roi_percent 0 when its investment is <= 0, and no payback or ROI        *)
(* division has a denominator <= 0.                                        *)
C3_AsStated ==
    Handled =>
        /\ \A i \in 1..Len(Emitted) :
              /\ RLe(Emitted[i].annual_savings, Zero) => Emitted[i].payback_years = Zero
              /\ RLe(Emitted[i].investment, Zero) => Emitted[i].roi_percent = Zero
        /\ \A dv \in ScenarioDivisions : RGt(dv.den, Zero)

(* C3 amended: every returned scenario other than Green Energy Procurement *)
(* has payback_years 0 when the savings its payback expression divides by  *)
(* is <= 0 and roi_percent 0 when the investment its ROI expression        *)
(* divides by is <= 0, and no payback or ROI division has a denominator    *)
(* <= 0; Green Energy Procurement has investment 0 and payback_years 0,    *)
(* and roi_percent 999 when its net savings is positive, 0 otherwise.      *)
C3_GuardedPaybackAndRoi ==
    Handled =>
        /\ \A i \in 1..Len(Emitted) :
              LET s == Emitted[i]
                  o == OperandsOf(s.name)
              IN  IF s.name = GreenName
                  THEN /\ s.investment = Zero
                       /\ s.payback_years = Zero
                       /\ s.roi_percent = IF RGt(o.savings, Zero) THEN Num(999) ELSE Zero
                  ELSE /\ RLe(o.savings, Zero) => s.payback_years = Zero
                       /\ RLe(o.investment, Zero) => s.roi_percent = Zero
                       /\ RGt(o.savings, Zero) =>
                              s.payback_years = PyRound(RDiv(o.investment, o.savings), 1)
        /\ \A dv \in ScenarioDivisions : RGt(dv.den, Zero)

(* C3 witness: an EV scenario whose fuel savings are negative is returned  *)
(* with payback 0, next to a combined scenario and a green scenario that   *)
(* carries the sentinel.                                                   *)
C3_Witness ==
    /\ Handled
    /\ IsEmitted("EV Fleet (30% transition)")
    /\ RLt(OperandsOf("EV Fleet (30% transition)").savings, Zero)
    /\ ScenarioNamed("EV Fleet (30% transition)").payback_years = Zero
    /\ IsEmitted(GreenName)
    /\ ScenarioNamed(GreenName).roi_percent = Num(999)
    /\ RLe(OperandsOf(CombinedName).savings, Zero)

(* C4: every value stored in by_source is strictly positive, and a         *)
(* category whose scope value is zero has no entry.                        *)
C4_BySourcePositive ==
    Handled =>
        /\ \A i \in 1..Len(locals.by_source) : RGt(locals.by_source[i][2], Zero)
        /\ \A sc \in {locals.scope1, locals.scope2, locals.scope3} :
              \A i \in 1..Len(sc) :
                  sc[i][2] = Zero => sc[i][1] \notin DictKeys(locals.by_source)

(* C5 as stated: at most 5 hotspots, strictly descending by emission, and  *)
(* no left-out by_source entry larger than the last hotspot.               *)
C5_AsStated ==
    Rendered =>
        /\ Len(Hotspots) <= 5
        /\ \A i \in 1..(Len(Hotspots) - 1) :
              RGt(Hotspots[i].emission, Hotspots[i + 1].emission)
        /\ \A i \in LeftOut :
              RLe(locals.by_source[i][2], Hotspots[Len(Hotspots)].emission)

(* C5 amended: at most 5 hotspots, descending by emission with equal       *)
(* neighbours allowed, every hotspot a by_source entry, and no left-out    *)
(* by_source entry larger than the last hotspot.                           *)
C5_HotspotsSortedTop5 ==
    Rendered =>
        /\ Len(Hotspots) <= 5
        /\ Len(Hotspots) = (IF Len(locals.by_source) < 5 THEN Len(locals.by_source) ELSE 5)
        /\ \A i \in 1..Len(Hotspots) :
              /\ Hotspots[i].source \in DictKeys(locals.by_source)
              /\ Hotspots[i].emission = DictGet(locals.by_source, Hotspots[i].source)
        /\ \A i \in 1..(Len(Hotspots) - 1) :
              RGe(Hotspots[i].emission, Hotspots[i + 1].emission)
        /\ \A i \in LeftOut :
              RLe(locals.by_source[i][2], Hotspots[Len(Hotspots)].emission)

(* C5 witness: more than five sources, so the list is truncated, with two  *)
(* neighbouring hotspots of different emission and two of equal emission.  *)
C5_Witness ==
    /\ Rendered
    /\ Len(locals.by_source) > 5
    /\ LeftOut # {}
    /\ \E i \in 1..(Len(Hotspots) - 1) : RGt(Hotspots[i].emission, Hotspots[i + 1].emission)
    /\ \E i \in 1..(Len(Hotspots) - 1) : Hotspots[i].emission = Hotspots[i + 1].emission

(* C6: the hotspot percentages sum to at most 100, and to exactly 100 only *)
(* when hotspots holds every by_source entry.                              *)
C6_PercentSumAtMost100 ==
    Rendered =>
        /\ RLe(PercentSum, Num(100))
        /\ PercentSum = Num(100) => LeftOut = {}

(* C7 as stated: the combined scenario is last, and a non-combined         *)
(* scenario A precedes another one B if and only if A.roi_percent >=       *)
(* B.roi_percent.                                                          *)
C7_AsStated ==
    Handled =>
        /\ GetIsCombined(Emitted[Len(Emitted)])
        /\ \A i, j \in NonCombined :
              i # j => ((i < j) <=> RGe(Emitted[i].roi_percent, Emitted[j].roi_percent))

(* C7 amended: the combined scenario is last, and a non-combined scenario  *)
(* that precedes another one has a roi_percent at least as large (of two   *)
(* with different roi_percent the larger comes first).                     *)
C7_SortedByRoiCombinedLast ==
    Handled =>
        /\ GetIsCombined(Emitted[Len(Emitted)])
        /\ \A i, j \in NonCombined :
              i < j => RGe(Emitted[i].roi_percent, Emitted[j].roi_percent)

(* C7 witness: the sort moved a later block ahead of an earlier one, two   *)
(* scenarios tie, and the combined scenario has a larger ROI than the      *)
(* scenario before it.                                                     *)
C7_Witness ==
    /\ Handled
    /\ IsEmitted("Rooftop Solar (40% offset)")
    /\ IsEmitted("Waste Diversion (50% to recycling)")
    /\ ScenarioNamed("Rooftop Solar (40% offset)").roi_percent
         = ScenarioNamed("Waste Diversion (50% to recycling)").roi_percent
    /\ Emitted[1].name = "Energy Efficiency (15% reduction)"
    /\ Len(Emitted) >= 2
    /\ RGt(Emitted[Len(Emitted)].roi_percent, Emitted[Len(Emitted) - 1].roi_percent)

(* C8: a non-combined scenario is emitted only when its applicability      *)
(* predicate holds, and none is emitted with investment, annual_savings    *)
(* and carbon_reduction all 0.                                             *)
C8_NoAllZeroScenario ==
    Handled =>
        \A i \in NonCombined :
            /\ Applies(Emitted[i].name)
            /\ ~(/\ Emitted[i].investment = Zero
                 /\ Emitted[i].annual_savings = Zero
                 /\ Emitted[i].carbon_reduction = Zero)

(* C9: exactly one combined scenario is emitted, its carbon_reduction is   *)
(* the sum of the carbon_reduction of the other emitted scenarios, and     *)
(* ten_year_reduction and ten_year_savings are ten times the combined      *)
(* scenario's carbon_reduction and annual_savings.                         *)
C9_CombinedTotals ==
    Handled =>
        /\ Cardinality({i \in 1..Len(Emitted) : GetIsCombined(Emitted[i])}) = 1
        /\ Len(Emitted) = Cardinality(NonCombined) + 1
        /\ ScenarioNamed(CombinedName).carbon_reduction
             = SumField(SelectSeq(Emitted, IsIndividual), "carbon_reduction", FALSE)
        /\ Rendered =>
              /\ result.ten_year_reduction
                   = RMul(ScenarioNamed(CombinedName).carbon_reduction, Num(10))
              /\ result.ten_year_savings
                   = RMul(ScenarioNamed(CombinedName).annual_savings, Num(10))

(* C9 witness: at least three individual scenarios, one of them with a     *)
(* negative reduction, and a combined reduction and saving that are not 0. *)
C9_Witness ==
    /\ Rendered
    /\ Cardinality(NonCombined) >= 3
    /\ \E i \in NonCombined : RLt(Emitted[i].carbon_reduction, Zero)
    /\ result.ten_year_reduction # Zero
    /\ result.ten_year_savings # Zero

(* C10: with electricity >= 0 and 0 <= renewable < 50 the green scenario's *)
(* net savings is never positive and it is emitted with roi_percent 0,     *)
(* priority Low, investment 0 and payback_years 0; with non-negative       *)
(* electricity and renewable no green scenario carries 999 or High.        *)
C10_GreenNeverProfitable ==
    (Handled /\ RGe(data.electricity, Zero) /\ RGe(data.renewable, Zero)) =>
        /\ RLt(data.renewable, Num(50)) <=> IsEmitted(GreenName)
        /\ IsEmitted(GreenName) =>
              /\ RLe(OperandsOf(GreenName).savings, Zero)
              /\ RLe(ScenarioNamed(GreenName).annual_savings, Zero)
              /\ ScenarioNamed(GreenName).roi_percent = Zero
              /\ ScenarioNamed(GreenName).priority = "Low"
              /\ ScenarioNamed(GreenName).investment = Zero
              /\ ScenarioNamed(GreenName).payback_years = Zero

(* C10 witness: electricity is bought, a fifth of it renewable, and the    *)
(* green scenario is emitted with a loss.                                  *)
C10_Witness ==
    /\ Handled
    /\ RGt(data.electricity, Zero)
    /\ data.renewable = Num(20)
    /\ IsEmitted(GreenName)
    /\ RLt(ScenarioNamed(GreenName).annual_savings, Zero)
    /\ ScenarioNamed(GreenName).priority = "Low"

====
